---- MODULE Spec2Model ----
(***************************************************************************)
(* A cluster of gossip-glomers nodes (src/src/main.rs).  Every node is the *)
(* single dispatcher loop of main(): it owns its state, handles one event  *)
(* (an external message or an internal timer task) at a time and writes    *)
(* zero or more messages to stdout.  Messages addressed to another node    *)
(* travel through `net`, an unordered network; a message that is never     *)
(* delivered is a lost one.                                                *)
(*                                                                         *)
(* The workloads are selected at compile time (cargo features), so there   *)
(* is one specification per build and workload:                            *)
(*   SpecBroadcast      feature "broadcast": central + mesh gossip tickers *)
(*   SpecBroadcastLive  the same build on a reliable network, with the     *)
(*                      fairness of the tickers and of delivery            *)
(*   SpecCounter        feature "g-counter": the counter gossip ticker     *)
(*   SpecCounterLive    the same build, reliable network, with fairness    *)
(*   SpecKafka          no ticker: the replicated log handlers             *)
(*   SpecKafkaLog       the same build, clients that send and poll         *)
(*   SpecKafkaCommit    the same build, clients that commit and list       *)
(*   SpecKafkaLogLive   the same build, reliable network, with fairness    *)
(*   SpecKafkaCommitLive  commit clients, reliable network, with fairness  *)
(*   SpecTxn            the same build, clients that send transactions     *)
(*   SpecReinit         feature "broadcast", a harness that repeats init   *)
(*   SpecShutdown       the threads and the event channel of one process   *)
(***************************************************************************)
EXTENDS Integers, Sequences, FiniteSets, TLC

VARIABLES
    feature,                \* the cargo feature this build was compiled with
    cluster,                \* the node_ids list the harness puts in every init
    id,                     \* id[n]: String, "" until init
    ids,                    \* ids[n]: Vec<String>
    leader,                 \* leader[n]: String
    central_neighbourhood,  \* central_neighbourhood[n]: Vec<String>
    mesh_neighbourhood,     \* mesh_neighbourhood[n]: Vec<String>
    usize_range,            \* the number of values of a usize in this build
    msg_id,                 \* msg_id[n]: usize, the next id to allocate
    messages,               \* messages[n]: HashSet<usize>
    seen,                   \* seen[n]: HashMap<String, HashSet<usize>>
    pending,                \* pending[n]: HashMap<usize, HashSet<usize>>
    cntr,                   \* cntr[n]: usize
    cntrs,                  \* cntrs[n]: HashMap<String, usize>
    logs,                   \* logs[n]: HashMap<String, Vec<usize>>
    committed_offsets,      \* committed_offsets[n]: HashMap<String, usize>
    txn_id,                 \* txn_id[n]: the transaction clock of node n
    pending_writes,         \* pending_writes[n]: Vec<WriteOp>
    snapshot,               \* snapshot[n]: Snapshot.data, key -> (value, timestamp)
    stdin_reader,           \* the thread behind jhc: "reading" or "done"
    senders,                \* the Sender handles of the channel not dropped yet
    rx,                     \* the events queued in the channel
    dispatcher,             \* main's `for evt in rx`: "looping" or "returned"
    net,                    \* messages in flight between nodes
    stdout,                 \* the lines the last handled event wrote, in order
    emitted,                \* history: emitted[s], the msg_ids of the lines written with src s
    client_msg_id,          \* harness: the msg_id of the client's next request
    broadcast_acked,        \* harness: the values node n answered broadcast_ok for
    last_read,              \* harness: the value of the last read_ok of node n
    first_offset,           \* harness: per key and value, the offset of its first send_ok
    txn_acked               \* harness: the transactions node n answered txn_ok for

idVars    == <<feature, usize_range, cluster, id, ids, leader, central_neighbourhood, mesh_neighbourhood>>
gossipVars == <<messages, seen, pending>>
cntrVars  == <<cntr, cntrs>>
kafkaVars == <<logs, committed_offsets>>
txnVars   == <<txn_id, pending_writes, snapshot>>
procVars  == <<stdin_reader, senders, rx, dispatcher>>
observed  == <<broadcast_acked, last_read, first_offset>>
vars == <<idVars, msg_id, gossipVars, cntrVars, kafkaVars, txnVars, procVars,
          net, stdout, emitted, client_msg_id, observed, txn_acked>>

----------------------------------------------------------------------------
(* Bounds of the model *)

\* usize is scaled down: the builds checked for safety count ids modulo
\* MsgIdMod and stop before the counter wraps; the builds checked for
\* liveness run forever and count ids modulo LiveIdMod
MsgIdMod == 6
LiveIdMod == 2
\* the client sends at most this many requests after the inits
MaxRequests == 3
\* the counter ticker of a node pauses while this many of its messages are in flight
MaxInFlight == 2
\* a producer of the event channel pauses while this many events are queued
MaxQueued == 2

Nodes == {"n0", "n1", "n2"}
Values == {7, 9}
Keys == {"k1", "k2"}
LogMsgs == {100, 200}
Offsets == {0, 1}
Client == "c1"

\* Option::None of an Option<usize> / Option<String>
None == -1
NoneStr == "None"
\* Option<T> of the read_ok fields
Absent == [some |-> FALSE]
Some(x) == [some |-> TRUE, v |-> x]

----------------------------------------------------------------------------
(* HashMap / Vec helpers *)

EmptyMap == [x \in {} |-> 0]

Put(f, k, v) == [x \in DOMAIN f \cup {k} |-> IF x = k THEN v ELSE f[x]]

Remove(f, k) == [x \in DOMAIN f \ {k} |-> f[x]]

Range(s) == {s[i] : i \in DOMAIN s}

RECURSIVE Sum(_, _)
Sum(f, S) == IF S = {} THEN 0
             ELSE LET x == CHOOSE y \in S : TRUE IN f[x] + Sum(f, S \ {x})

----------------------------------------------------------------------------
(* Message envelope *)

Msg(src, dst, pl, mid, irt) ==
    [src |-> src, dst |-> dst, pl |-> pl, msg_id |-> mid, in_reply_to |-> irt]

\* usize increment of the id counter
IdSucc(i) == (i + 1) % usize_range

\* Msg::into_resp: the reply envelope; the caller advances the counter
into_resp(m, i) == Msg(m.dst, m.src, m.pl, i, m.msg_id)

WithPl(m, pl) == [m EXCEPT !.pl = pl]

\* the lines of `out` that are addressed to a node of the cluster
Wire(out) == {out[i] : i \in {j \in DOMAIN out : out[j].dst \in Nodes}}

\* the ids carried by the lines of `out` whose src is s
Stamped(out, s) ==
    {out[i].msg_id : i \in {j \in DOMAIN out : out[j].src = s /\ out[j].msg_id # None}}

\* a handler wrote `out` while handling the in-flight messages `taken`
Emit(taken, out) ==
    /\ stdout' = out
    /\ net' = (net \ taken) \cup Wire(out)
    /\ emitted' = [s \in Nodes |-> emitted[s] \cup Stamped(out, s)]

\* the harness has initialised every node of the cluster and begins the workload
Initialised == \A i \in DOMAIN cluster : id[cluster[i]] = cluster[i]

\* node n can allocate k more ids without the counter wrapping
NoWrap(n, k) == msg_id[n] + k < usize_range

----------------------------------------------------------------------------
(* State after construction: main.rs lines 188-251 *)

InitState(f, w, c) ==
    /\ feature = f
    /\ usize_range = w
    /\ cluster = c
    /\ id = [n \in Nodes |-> ""]
    /\ ids = [n \in Nodes |-> <<>>]
    /\ leader = [n \in Nodes |-> ""]
    /\ central_neighbourhood = [n \in Nodes |-> <<>>]
    /\ mesh_neighbourhood = [n \in Nodes |-> <<>>]
    /\ msg_id = [n \in Nodes |-> 0]
    /\ messages = [n \in Nodes |-> {}]
    /\ seen = [n \in Nodes |-> EmptyMap]
    /\ pending = [n \in Nodes |-> EmptyMap]
    /\ cntr = [n \in Nodes |-> 0]
    /\ cntrs = [n \in Nodes |-> EmptyMap]
    /\ logs = [n \in Nodes |-> EmptyMap]
    /\ committed_offsets = [n \in Nodes |-> EmptyMap]
    /\ txn_id = [n \in Nodes |-> 0]
    /\ pending_writes = [n \in Nodes |-> << >>]
    /\ snapshot = [n \in Nodes |-> EmptyMap]
    /\ stdin_reader = "reading"
    /\ senders = {"txc", "txsc", "txsm"}
    /\ rx = << >>
    /\ dispatcher = "looping"
    /\ net = {}
    /\ stdout = <<>>
    /\ emitted = [s \in Nodes |-> {}]
    /\ client_msg_id = 1
    /\ broadcast_acked = [n \in Nodes |-> {}]
    /\ last_read = [n \in Nodes |-> 0]
    /\ first_offset = [k \in Keys |-> EmptyMap]
    /\ txn_acked = [n \in Nodes |-> {}]

----------------------------------------------------------------------------
(* Pl::Init *)

CentralOf(self, node_ids) ==
    LET central == Head(node_ids)
        NotCentral(x) == x # central
    IN  IF self = central THEN SelectSeq(node_ids, NotCentral) ELSE <<central>>

MeshOf(self, node_ids) ==
    LET NotSelf(x) == x # self IN SelectSeq(node_ids, NotSelf)

Pl_Init(n, m, taken) ==
    LET resp == into_resp(m, msg_id[n])
        node_id == m.pl.node_id
        node_ids == m.pl.node_ids
    IN  /\ msg_id' = [msg_id EXCEPT ![n] = IdSucc(@)]
        /\ id' = [id EXCEPT ![n] = node_id]
        /\ ids' = [ids EXCEPT ![n] = node_ids]
        /\ central_neighbourhood' =
               [central_neighbourhood EXCEPT ![n] = CentralOf(node_id, node_ids)]
        /\ leader' = [leader EXCEPT ![n] = Head(node_ids)]
        /\ mesh_neighbourhood' =
               [mesh_neighbourhood EXCEPT ![n] = MeshOf(node_id, node_ids)]
        /\ seen' = [seen EXCEPT ![n] = [p \in Range(node_ids) |-> {}]]
        /\ cntrs' = [cntrs EXCEPT ![n] = [p \in Range(node_ids) |-> 0]]
        /\ Emit(taken, << WithPl(resp, [type |-> "init_ok"]),
                          Msg(node_id, "lin-kv",
                              [type |-> "read", key |-> "my-test-key", msg_id |-> 1],
                              None, None) >>)
        /\ UNCHANGED <<feature, usize_range, cluster, messages, pending, cntr, kafkaVars, txnVars>>

----------------------------------------------------------------------------
(* Broadcast workload *)

\* fault: the set is replaced by the new value
Inserted_Replaced(set, msg) == {msg}
\* messages.insert(msg)
Inserted(set, msg) == set \cup {msg}

Pl_Broadcast(n, m, taken) ==
    LET resp == into_resp(m, msg_id[n])
    IN  /\ msg_id' = [msg_id EXCEPT ![n] = IdSucc(@)]
        /\ messages' = [messages EXCEPT ![n] = Inserted(@, m.pl.msg)]
        /\ Emit(taken, << WithPl(resp, [type |-> "broadcast_ok"]) >>)
        /\ UNCHANGED <<idVars, seen, pending, cntrVars, kafkaVars, txnVars>>

\* fault: the gossiped values are not stored
Extended_Not(set, msgs) == set
\* messages.extend(msgs.iter())
Extended(set, msgs) == set \cup msgs

\* seen.get_mut(&resp.dst).unwrap() panics for a sender that init did not list
Pl_Gossip(n, m, taken) ==
    LET resp == into_resp(m, msg_id[n])
        msgs == m.pl.msgs
    IN  /\ resp.dst \in DOMAIN seen[n]
        /\ resp.in_reply_to # None
        /\ msg_id' = [msg_id EXCEPT ![n] = IdSucc(@)]
        /\ messages' = [messages EXCEPT ![n] = Extended(@, msgs)]
        /\ seen' = [seen EXCEPT ![n][resp.dst] = @ \cup msgs]
        /\ Emit(taken, << WithPl(resp, [type |-> "gossip_ok", id |-> resp.in_reply_to]) >>)
        /\ UNCHANGED <<idVars, pending, cntrVars, kafkaVars, txnVars>>

\* fault: an acknowledgement counts for every value the node holds
Acked_AllOwn(own, pend, ackd) == own
\* the values of the acknowledged round: pending.remove(&id)
Acked(own, pend, ackd) == pend[ackd]

\* fault: an acknowledgement clears every pending round
Removed_All(pend, ackd) == EmptyMap
\* pending.remove(&id)
Removed(pend, ackd) == Remove(pend, ackd)

Pl_GossipOk(n, m, taken) ==
    LET resp == into_resp(m, msg_id[n])
        ackd == m.pl.id
    IN  /\ msg_id' = [msg_id EXCEPT ![n] = IdSucc(@)]
        /\ IF ackd \in DOMAIN pending[n]
           THEN /\ resp.dst \in DOMAIN seen[n]
                /\ pending' = [pending EXCEPT ![n] = Removed(@, ackd)]
                /\ seen' = [seen EXCEPT ![n][resp.dst] = @ \cup Acked(messages[n], pending[n], ackd)]
           ELSE UNCHANGED <<pending, seen>>
        /\ Emit(taken, << >>)
        /\ UNCHANGED <<idVars, messages, cntrVars, kafkaVars, txnVars>>

\* the read_ok payload of the Pl::Read arm
ReadOk(n) ==
    [type |-> "read_ok",
     msgs |-> IF messages[n] = {} THEN Absent ELSE Some(messages[n]),
     value |-> IF feature = "g-counter"
               THEN Some(Sum(cntrs[n], DOMAIN cntrs[n]) + cntr[n])
               ELSE Absent]

\* a read carrying key or msg_id is lin-kv's and panics the node
Pl_Read(n, m, taken) ==
    LET resp == into_resp(m, msg_id[n])
    IN  /\ m.pl.key = NoneStr /\ m.pl.msg_id = None
        /\ msg_id' = [msg_id EXCEPT ![n] = IdSucc(@)]
        /\ Emit(taken, << WithPl(resp, ReadOk(n)) >>)
        /\ UNCHANGED <<idVars, gossipVars, cntrVars, kafkaVars, txnVars>>

\* fault: nothing is ever unseen
Unseen_Nothing(own, seen_by_host) == {}
\* messages.difference(&seen[host])
Unseen(own, seen_by_host) == own \ seen_by_host

\* fault: the round is not recorded
Recorded_Not(pend, i, digest) == pend
\* pending.insert(msg_id, unseen_by_host.clone())
Recorded(pend, i, digest) == Put(pend, i, digest)

\* the loop body shared by Task::CentralGossip and Task::MeshGossip: st carries
\* the lines written, the pending map and the id counter through the loop
RECURSIVE GossipLoop(_, _, _)
GossipLoop(n, hosts, st) ==
    IF hosts = << >> THEN st
    ELSE LET host == Head(hosts)
             unseen_by_host == Unseen(messages[n], seen[n][host])
             resp == Msg(id[n], host, [type |-> "gossip", msgs |-> unseen_by_host],
                         st.msg_id, None)
         IN  GossipLoop(n, Tail(hosts),
                 IF unseen_by_host # {}
                 THEN [out |-> Append(st.out, resp),
                       pending |-> Recorded(st.pending, st.msg_id, unseen_by_host),
                       msg_id |-> IdSucc(st.msg_id)]
                 ELSE st)

GossipTask(n, hosts) ==
    LET st == GossipLoop(n, hosts,
                  [out |-> << >>, pending |-> pending[n], msg_id |-> msg_id[n]])
    IN  /\ msg_id' = [msg_id EXCEPT ![n] = st.msg_id]
        /\ pending' = [pending EXCEPT ![n] = st.pending]
        /\ Emit({}, st.out)
        /\ UNCHANGED <<idVars, messages, seen, cntrVars, kafkaVars, txnVars>>

Task_CentralGossip(n) == GossipTask(n, central_neighbourhood[n])

Task_MeshGossip(n) == GossipTask(n, mesh_neighbourhood[n])

----------------------------------------------------------------------------
(* Grow-only counter workload *)

Pl_Add(n, m, taken) ==
    LET resp == into_resp(m, msg_id[n])
    IN  /\ msg_id' = [msg_id EXCEPT ![n] = IdSucc(@)]
        /\ cntr' = [cntr EXCEPT ![n] = @ + m.pl.delta]
        /\ Emit(taken, << WithPl(resp, [type |-> "add_ok"]) >>)
        /\ UNCHANGED <<idVars, gossipVars, cntrs, kafkaVars, txnVars>>

\* fault: the gossiped counter is not stored
StoreCntr_Kept(old, new) == old
\* what the Pl::GossipCntr arm stores for the sender
StoreCntr(old, new) == new

Pl_GossipCntr(n, m, taken) ==
    LET resp == into_resp(m, msg_id[n])
        old == IF resp.dst \in DOMAIN cntrs[n] THEN cntrs[n][resp.dst] ELSE 0
    IN  /\ msg_id' = [msg_id EXCEPT ![n] = IdSucc(@)]
        /\ cntrs' = [cntrs EXCEPT ![n] = Put(@, resp.dst, StoreCntr(old, m.pl.cntr))]
        /\ Emit(taken, << >>)
        /\ UNCHANGED <<idVars, gossipVars, cntr, kafkaVars, txnVars>>

RECURSIVE GossipCntrLoop(_, _, _)
GossipCntrLoop(n, hosts, st) ==
    IF hosts = << >> THEN st
    ELSE LET node_to_contact == Head(hosts)
             resp == Msg(id[n], node_to_contact,
                         [type |-> "gossip_cntr", cntr |-> cntr[n]], st.msg_id, None)
         IN  GossipCntrLoop(n, Tail(hosts),
                 [out |-> Append(st.out, resp), msg_id |-> IdSucc(st.msg_id)])

Task_GossipCntr(n) ==
    LET st == GossipCntrLoop(n, mesh_neighbourhood[n],
                  [out |-> << >>, msg_id |-> msg_id[n]])
    IN  /\ msg_id' = [msg_id EXCEPT ![n] = st.msg_id]
        /\ Emit({}, st.out)
        /\ UNCHANGED <<idVars, gossipVars, cntrVars, kafkaVars, txnVars>>

----------------------------------------------------------------------------
(* Replicated log workload *)

Contains(msgs, msg) == \E i \in DOMAIN msgs : msgs[i] = msg

\* fault: the list is replaced by the new value
Pushed_Replaced(log, key, msg) == Put(log, key, << msg >>)
\* logs.entry(key).or_default() followed by the deduplicating push
Pushed(log, key, msg) ==
    LET msgs == IF key \in DOMAIN log THEN log[key] ELSE << >>
    IN  Put(log, key, IF Contains(msgs, msg) THEN msgs ELSE Append(msgs, msg))

\* the offset of send_ok: logs[&key].len() - 1
SendOffset(msgs) == Len(msgs) - 1

\* one message per host of `hosts`, in order, each without msg_id
RECURSIVE FanOut(_, _, _)
FanOut(src, hosts, pl) ==
    IF hosts = << >> THEN << >>
    ELSE << Msg(src, Head(hosts), pl, None, None) >> \o FanOut(src, Tail(hosts), pl)

Pl_Send(n, m, taken) ==
    LET resp == into_resp(m, msg_id[n])
        key == m.pl.key
        msg == m.pl.msg
        log == Pushed(logs[n], key, msg)
        offset == SendOffset(log[key])
    IN  /\ msg_id' = [msg_id EXCEPT ![n] = IdSucc(@)]
        /\ IF id[n] = leader[n]
           THEN /\ logs' = [logs EXCEPT ![n] = log]
                /\ Emit(taken,
                        << WithPl(resp, [type |-> "send_ok", offset |-> offset]) >>
                        \o FanOut(id[n], central_neighbourhood[n],
                                  [type |-> "send_many", key |-> key, msgs |-> log[key]]))
           ELSE /\ UNCHANGED logs
                /\ Emit(taken,
                        << [WithPl(resp, [type |-> "send", key |-> key, msg |-> msg])
                               EXCEPT !.dst = leader[n]] >>)
        /\ UNCHANGED <<idVars, gossipVars, cntrVars, committed_offsets, txnVars>>

\* whether the Pl::SendMany arm keeps its own list
KeepsOwn(own, msgs) == Len(own) > Len(msgs)

Pl_SendMany(n, m, taken) ==
    LET key == m.pl.key
        msgs == m.pl.msgs
    IN  /\ msg_id' = [msg_id EXCEPT ![n] = IdSucc(@)]
        /\ IF key \in DOMAIN logs[n] /\ KeepsOwn(logs[n][key], msgs)
           THEN UNCHANGED logs
           ELSE logs' = [logs EXCEPT ![n] = Put(@, key, msgs)]
        /\ Emit(taken, << >>)
        /\ UNCHANGED <<idVars, gossipVars, cntrVars, committed_offsets, txnVars>>

\* msgs.iter().enumerate(): the pairs (i, msg), i counted from 0
Enumerate(msgs) == [j \in 1..Len(msgs) |-> << j - 1, msgs[j] >>]

\* fault: the offset polled from is left out
FromOffset_After(i, offset) == i > offset
\* the filter of the Pl::Poll arm
FromOffset(i, offset) == i >= offset

PollList(msgs, offset) ==
    LET Keep(p) == FromOffset(p[1], offset) IN SelectSeq(Enumerate(msgs), Keep)

PollOk(log, offsets) ==
    [type |-> "poll_ok",
     msgs |-> [key \in DOMAIN offsets \cap DOMAIN log |-> PollList(log[key], offsets[key])]]

Pl_Poll(n, m, taken) ==
    LET resp == into_resp(m, msg_id[n])
    IN  /\ msg_id' = [msg_id EXCEPT ![n] = IdSucc(@)]
        /\ Emit(taken, << WithPl(resp, PollOk(logs[n], m.pl.offsets)) >>)
        /\ UNCHANGED <<idVars, gossipVars, cntrVars, kafkaVars, txnVars>>

Max(a, b) == IF a >= b THEN a ELSE b

\* fault: the stored offset is overwritten
CommitOne_Overwritten(old, offset) == offset
\* .and_modify(|x| *x = (*x).max(*offset)).or_insert(*offset), for one key
CommitOne(old, offset) == Max(old, offset)

Committed(committed, offsets) ==
    [key \in DOMAIN committed \cup DOMAIN offsets |->
        IF key \notin DOMAIN offsets THEN committed[key]
        ELSE IF key \in DOMAIN committed THEN CommitOne(committed[key], offsets[key])
        ELSE offsets[key]]

Pl_CommitOffsets(n, m, taken) ==
    LET resp == into_resp(m, msg_id[n])
        offsets == m.pl.offsets
    IN  /\ msg_id' = [msg_id EXCEPT ![n] = IdSucc(@)]
        /\ IF id[n] = leader[n]
           THEN /\ committed_offsets' =
                       [committed_offsets EXCEPT ![n] = Committed(@, offsets)]
                /\ Emit(taken,
                        << WithPl(resp, [type |-> "commit_offsets_ok"]) >>
                        \o FanOut(id[n], central_neighbourhood[n],
                                  [type |-> "commit_offsets", offsets |-> offsets]))
           ELSE /\ UNCHANGED committed_offsets
                /\ Emit(taken,
                        << [WithPl(resp, [type |-> "commit_offsets", offsets |-> offsets])
                               EXCEPT !.dst = leader[n]] >>)
        /\ UNCHANGED <<idVars, gossipVars, cntrVars, logs, txnVars>>

\* keys.into_iter().filter_map(..).collect() into a HashMap
ListCommittedOffsetsOk(committed, keys) ==
    [type |-> "list_committed_offsets_ok",
     offsets |-> [key \in Range(keys) \cap DOMAIN committed |-> committed[key]]]

Pl_ListCommittedOffsets(n, m, taken) ==
    LET resp == into_resp(m, msg_id[n])
    IN  /\ msg_id' = [msg_id EXCEPT ![n] = IdSucc(@)]
        /\ Emit(taken, << WithPl(resp,
                              ListCommittedOffsetsOk(committed_offsets[n], m.pl.keys)) >>)
        /\ UNCHANGED <<idVars, gossipVars, cntrVars, kafkaVars, txnVars>>

\* the *_ok payloads a node receives: "client pl recvd by server, relaxed"
Pl_Ignored(n, m, taken) ==
    /\ msg_id' = [msg_id EXCEPT ![n] = IdSucc(@)]
    /\ Emit(taken, << >>)
    /\ UNCHANGED <<idVars, gossipVars, cntrVars, kafkaVars, txnVars>>

----------------------------------------------------------------------------
(* The harness: the client's requests and the delivery of messages in flight *)

InitReq(n) ==
    Msg("c0", n, [type |-> "init", node_id |-> n, node_ids |-> cluster], 1, None)

\* the next request of the client, sent to node n
ClientReq(n, pl) == Msg(Client, n, pl, client_msg_id, None)

CanAsk == Initialised /\ client_msg_id <= MaxRequests

Asked == client_msg_id' = client_msg_id + 1

\* the harness sends init once to every node of the cluster
RecvInit(n) ==
    /\ id[n] = ""
    /\ Pl_Init(n, InitReq(n), {})
    /\ UNCHANGED <<client_msg_id, observed>>
    /\ UNCHANGED <<procVars, txn_acked>>

RecvBroadcast(n) ==
    /\ CanAsk
    /\ \E v \in Values :
          /\ Pl_Broadcast(n, ClientReq(n, [type |-> "broadcast", msg |-> v]), {})
          /\ broadcast_acked' = [broadcast_acked EXCEPT ![n] = @ \cup {v}]
    /\ Asked
    /\ UNCHANGED <<last_read, first_offset>>
    /\ UNCHANGED <<procVars, txn_acked>>

RecvRead(n) ==
    /\ CanAsk
    /\ Pl_Read(n, ClientReq(n, [type |-> "read", key |-> NoneStr, msg_id |-> None]), {})
    /\ last_read' = [last_read EXCEPT ![n] =
                        IF stdout'[1].pl.value.some THEN stdout'[1].pl.value.v ELSE @]
    /\ Asked
    /\ UNCHANGED <<broadcast_acked, first_offset>>
    /\ UNCHANGED <<procVars, txn_acked>>

RecvGossip(m) ==
    /\ m.pl.type = "gossip"
    /\ Pl_Gossip(m.dst, m, {m})
    /\ UNCHANGED <<client_msg_id, observed>>
    /\ UNCHANGED <<procVars, txn_acked>>

RecvGossipOk(m) ==
    /\ m.pl.type = "gossip_ok"
    /\ Pl_GossipOk(m.dst, m, {m})
    /\ UNCHANGED <<client_msg_id, observed>>
    /\ UNCHANGED <<procVars, txn_acked>>

CentralGossipTick(n) ==
    /\ id[n] # ""
    /\ Task_CentralGossip(n)
    /\ UNCHANGED <<client_msg_id, observed>>
    /\ UNCHANGED <<procVars, txn_acked>>

MeshGossipTick(n) ==
    /\ id[n] # ""
    /\ Task_MeshGossip(n)
    /\ UNCHANGED <<client_msg_id, observed>>
    /\ UNCHANGED <<procVars, txn_acked>>

----------------------------------------------------------------------------
(* Build with feature "broadcast", lossy network, ids never wrap *)

InitBroadcast == InitState("broadcast", MsgIdMod, <<"n0", "n1">>)

NextBroadcast ==
    \/ \E n \in Range(cluster) : NoWrap(n, 1) /\ RecvInit(n)
    \/ \E n \in Range(cluster) : NoWrap(n, 1) /\ RecvBroadcast(n)
    \/ \E n \in Range(cluster) : NoWrap(n, 1) /\ RecvRead(n)
    \/ \E m \in net : NoWrap(m.dst, 1) /\ RecvGossip(m)
    \/ \E m \in net : NoWrap(m.dst, 1) /\ RecvGossipOk(m)
    \/ \E n \in Range(cluster) :
          NoWrap(n, Len(central_neighbourhood[n])) /\ CentralGossipTick(n)
    \/ \E n \in Range(cluster) :
          NoWrap(n, Len(mesh_neighbourhood[n])) /\ MeshGossipTick(n)

SpecBroadcast == InitBroadcast /\ [][NextBroadcast]_vars

----------------------------------------------------------------------------
(* Build with feature "broadcast", reliable network: the node runs forever, *)
(* so its ids wrap; a ticker's round starts once the previous one is acked  *)

RoundAcked(n) == pending[n] = EmptyMap

LiveCluster == <<"n0", "n1">>
LiveNodes == Range(LiveCluster)

InitBroadcastLive == InitState("broadcast", LiveIdMod, LiveCluster)

NextBroadcastLive ==
    \/ \E n \in LiveNodes : RecvInit(n)
    \/ \E n \in LiveNodes : RecvBroadcast(n)
    \/ \E n \in LiveNodes : RecvRead(n)
    \/ \E m \in net : RecvGossip(m)
    \/ \E m \in net : RecvGossipOk(m)
    \/ \E n \in LiveNodes : RoundAcked(n) /\ CentralGossipTick(n)
    \/ \E n \in LiveNodes : RoundAcked(n) /\ MeshGossipTick(n)

\* the messages a link can carry
Link == {l \in LiveNodes \X LiveNodes : l[1] # l[2]}
Ids == 0..(LiveIdMod - 1)
GossipMsgs ==
    {Msg(l[1], l[2], [type |-> "gossip", msgs |-> d], i, None) :
        l \in Link, d \in SUBSET Values \ {{}}, i \in Ids}
GossipOkMsgs ==
    {Msg(l[1], l[2], [type |-> "gossip_ok", id |-> a], i, a) :
        l \in Link, a \in Ids, i \in Ids}

\* the harness delivers init, the interval timers keep firing, and a message
\* in flight is eventually delivered
FairBroadcast ==
    /\ \A n \in LiveNodes : WF_vars(RecvInit(n))
    /\ \A n \in LiveNodes : WF_vars(RoundAcked(n) /\ CentralGossipTick(n))
    /\ \A n \in LiveNodes : WF_vars(RoundAcked(n) /\ MeshGossipTick(n))
    /\ \A m \in GossipMsgs : WF_vars(m \in net /\ RecvGossip(m))
    /\ \A m \in GossipOkMsgs : WF_vars(m \in net /\ RecvGossipOk(m))

SpecBroadcastLive == InitBroadcastLive /\ [][NextBroadcastLive]_vars /\ FairBroadcast

----------------------------------------------------------------------------
(* Build with feature "g-counter": the 10 ms ticker pauses while            *)
(* MaxInFlight of the node's messages are in flight                         *)

\* the adds of the workload: each is sent once
AddRequests == {<<"n0", 3>>, <<"n1", 5>>}

RecvAdd(n) ==
    /\ CanAsk
    /\ cntr[n] = 0
    /\ \E r \in AddRequests :
          r[1] = n /\ Pl_Add(n, ClientReq(n, [type |-> "add", delta |-> r[2]]), {})
    /\ Asked
    /\ UNCHANGED observed
    /\ UNCHANGED <<procVars, txn_acked>>

RecvGossipCntr(m) ==
    /\ m.pl.type = "gossip_cntr"
    /\ Pl_GossipCntr(m.dst, m, {m})
    /\ UNCHANGED <<client_msg_id, observed>>
    /\ UNCHANGED <<procVars, txn_acked>>

SentBy(n) == {m \in net : m.src = n}

GossipCntrTick(n) ==
    /\ id[n] # ""
    /\ Cardinality(SentBy(n)) < MaxInFlight
    /\ Task_GossipCntr(n)
    /\ UNCHANGED <<client_msg_id, observed>>
    /\ UNCHANGED <<procVars, txn_acked>>

\* lossy network, ids never wrap
InitCounter == InitState("g-counter", MsgIdMod, <<"n0", "n1">>)

NextCounter ==
    \/ \E n \in Range(cluster) : NoWrap(n, 1) /\ RecvInit(n)
    \/ \E n \in Range(cluster) : NoWrap(n, 1) /\ RecvAdd(n)
    \/ \E n \in Range(cluster) : NoWrap(n, 1) /\ RecvRead(n)
    \/ \E m \in net : NoWrap(m.dst, 1) /\ RecvGossipCntr(m)
    \/ \E n \in Range(cluster) :
          NoWrap(n, Len(mesh_neighbourhood[n])) /\ GossipCntrTick(n)

SpecCounter == InitCounter /\ [][NextCounter]_vars

\* reliable network: the node runs forever, so its ids wrap
InitCounterLive == InitState("g-counter", LiveIdMod, LiveCluster)

\* the harness delivers init, the interval timer keeps firing, and every link
\* keeps delivering
FairCounter ==
    /\ \A n \in LiveNodes : WF_vars(RecvInit(n))
    /\ \A n \in LiveNodes : WF_vars(GossipCntrTick(n))
    /\ \A l \in Link :
          WF_vars(\E m \in net : m.src = l[1] /\ m.dst = l[2] /\ RecvGossipCntr(m))

NextCounterLive ==
    \/ \E n \in LiveNodes : RecvInit(n)
    \/ \E n \in LiveNodes : RecvAdd(n)
    \/ \E m \in net : RecvGossipCntr(m)
    \/ \E n \in LiveNodes : GossipCntrTick(n)

SpecCounterLive == InitCounterLive /\ [][NextCounterLive]_vars /\ FairCounter

----------------------------------------------------------------------------
(* Build without tickers: the replicated log.  n0, the first of node_ids,   *)
(* is the leader; ids never wrap                                            *)

OffsetMaps == [{"k1"} -> Offsets] \cup [Keys -> {1}]
KeyLists == {<<"k1", "k2">>}

\* the harness notes the offset of the first send_ok of every value
ObserveSend(key, msg) ==
    IF stdout'[1].pl.type = "send_ok"
    THEN first_offset' = [first_offset EXCEPT ![key] =
                             IF msg \in DOMAIN @ THEN @
                             ELSE Put(@, msg, stdout'[1].pl.offset)]
    ELSE UNCHANGED first_offset

\* a client's send, to the leader or to a replica
RecvSend(n, key, msg) ==
    /\ CanAsk
    /\ Pl_Send(n, ClientReq(n, [type |-> "send", key |-> key, msg |-> msg]), {})
    /\ ObserveSend(key, msg)
    /\ Asked
    /\ UNCHANGED <<broadcast_acked, last_read>>
    /\ UNCHANGED <<procVars, txn_acked>>

\* the send a replica forwarded
RecvForwardedSend(m) ==
    /\ m.pl.type = "send"
    /\ Pl_Send(m.dst, m, {m})
    /\ ObserveSend(m.pl.key, m.pl.msg)
    /\ UNCHANGED <<client_msg_id, broadcast_acked, last_read>>
    /\ UNCHANGED <<procVars, txn_acked>>

RecvSendMany(m) ==
    /\ m.pl.type = "send_many"
    /\ Pl_SendMany(m.dst, m, {m})
    /\ UNCHANGED <<client_msg_id, observed>>
    /\ UNCHANGED <<procVars, txn_acked>>

RecvPoll(n, offsets) ==
    /\ CanAsk
    /\ Pl_Poll(n, ClientReq(n, [type |-> "poll", offsets |-> offsets]), {})
    /\ Asked
    /\ UNCHANGED observed
    /\ UNCHANGED <<procVars, txn_acked>>

RecvCommitOffsets(n, offsets) ==
    /\ CanAsk
    /\ Pl_CommitOffsets(n, ClientReq(n, [type |-> "commit_offsets", offsets |-> offsets]), {})
    /\ Asked
    /\ UNCHANGED observed
    /\ UNCHANGED <<procVars, txn_acked>>

\* the commit_offsets of the leader's fan-out or of a replica's forwarding
RecvRelayedCommitOffsets(m) ==
    /\ m.pl.type = "commit_offsets"
    /\ Pl_CommitOffsets(m.dst, m, {m})
    /\ UNCHANGED <<client_msg_id, observed>>
    /\ UNCHANGED <<procVars, txn_acked>>

RecvListCommittedOffsets(n, keys) ==
    /\ CanAsk
    /\ Pl_ListCommittedOffsets(n,
           ClientReq(n, [type |-> "list_committed_offsets", keys |-> keys]), {})
    /\ Asked
    /\ UNCHANGED observed
    /\ UNCHANGED <<procVars, txn_acked>>

\* the leader answers a forwarded request to the replica that forwarded it
RecvIgnored(m) ==
    /\ m.pl.type \in {"send_ok", "commit_offsets_ok"}
    /\ Pl_Ignored(m.dst, m, {m})
    /\ UNCHANGED <<client_msg_id, observed>>
    /\ UNCHANGED <<procVars, txn_acked>>

InitKafka == InitState("kafka", MsgIdMod, <<"n0", "n1">>)

NextKafka ==
    \/ \E n \in Range(cluster) : NoWrap(n, 1) /\ RecvInit(n)
    \/ \E n \in Range(cluster), key \in Keys, msg \in LogMsgs :
          NoWrap(n, 1) /\ RecvSend(n, key, msg)
    \/ \E m \in net : NoWrap(m.dst, 1) /\ RecvForwardedSend(m)
    \/ \E m \in net : NoWrap(m.dst, 1) /\ RecvSendMany(m)
    \/ \E n \in Range(cluster), offsets \in OffsetMaps :
          NoWrap(n, 1) /\ RecvPoll(n, offsets)
    \/ \E n \in Range(cluster), offsets \in OffsetMaps :
          NoWrap(n, 1) /\ RecvCommitOffsets(n, offsets)
    \/ \E m \in net : NoWrap(m.dst, 1) /\ RecvRelayedCommitOffsets(m)
    \/ \E n \in Range(cluster), keys \in KeyLists :
          NoWrap(n, 1) /\ RecvListCommittedOffsets(n, keys)
    \/ \E m \in net : NoWrap(m.dst, 1) /\ RecvIgnored(m)

SpecKafka == InitKafka /\ [][NextKafka]_vars

\* the clients that produce and consume: send and poll only
NextKafkaLog ==
    \/ \E n \in Range(cluster) : NoWrap(n, 1) /\ RecvInit(n)
    \/ \E n \in Range(cluster), key \in Keys, msg \in LogMsgs :
          NoWrap(n, 1) /\ RecvSend(n, key, msg)
    \/ \E m \in net : NoWrap(m.dst, 1) /\ RecvForwardedSend(m)
    \/ \E m \in net : NoWrap(m.dst, 1) /\ RecvSendMany(m)
    \/ \E n \in Range(cluster), offsets \in OffsetMaps :
          NoWrap(n, 1) /\ RecvPoll(n, offsets)
    \/ \E m \in net : NoWrap(m.dst, 1) /\ RecvIgnored(m)

SpecKafkaLog == InitKafka /\ [][NextKafkaLog]_vars

\* the clients that commit: commit_offsets and list_committed_offsets only
NextKafkaCommit ==
    \/ \E n \in Range(cluster) : NoWrap(n, 1) /\ RecvInit(n)
    \/ \E n \in Range(cluster), offsets \in OffsetMaps :
          NoWrap(n, 1) /\ RecvCommitOffsets(n, offsets)
    \/ \E m \in net : NoWrap(m.dst, 1) /\ RecvRelayedCommitOffsets(m)
    \/ \E n \in Range(cluster), keys \in KeyLists :
          NoWrap(n, 1) /\ RecvListCommittedOffsets(n, keys)
    \/ \E m \in net : NoWrap(m.dst, 1) /\ RecvIgnored(m)

SpecKafkaCommit == InitKafka /\ [][NextKafkaCommit]_vars

----------------------------------------------------------------------------
(* Properties of the broadcast build *)

\* C1 (INV-GossipSubset): on every node, in every state reached by init,
\* broadcast, gossip, gossip_ok, read and the two gossip tickers, what the node
\* believes a peer p has seen is a subset of the node's own messages
GossipSubset ==
    \A n \in Nodes : \A p \in DOMAIN seen[n] : seen[n][p] \subseteq messages[n]

\* a node knows that its peer has seen every value
GossipSubsetReached ==
    \E n \in Nodes : \E p \in DOMAIN seen[n] : seen[n][p] = Values

\* what a read of node n returns contains v
ReadContains(n, v) == ReadOk(n).msgs.some /\ v \in ReadOk(n).msgs.v

\* C2 (broadcast convergence): with the tickers firing and every message in
\* flight eventually delivered, a value some node answered broadcast_ok for is
\* eventually in the messages a read returns on every node
BroadcastConverges ==
    \A v \in Values : \A n \in LiveNodes :
        (\E q \in LiveNodes : v \in broadcast_acked[q]) ~> ReadContains(n, v)

\* 7 was broadcast to n0 only, 9 to n1 only, and a read on n1 returns both
BroadcastConverged ==
    /\ broadcast_acked["n0"] = {7}
    /\ broadcast_acked["n1"] = {9}
    /\ Len(stdout) = 1
    /\ stdout[1].src = "n1"
    /\ stdout[1].pl.type = "read_ok"
    /\ stdout[1].pl.msgs = Some({7, 9})

\* if the line is a read_ok, its messages (none when the field is omitted)
\* contain all of vs
ReadOkWith(line, vs) ==
    line.pl.type = "read_ok" =>
        vs \subseteq (IF line.pl.msgs.some THEN line.pl.msgs.v ELSE {})

\* C3 (INV-GrowSet): no event removes an element of a node's messages, and a
\* read_ok of a node contains every value the node answered broadcast_ok for
GrowSet ==
    [][/\ \A n \in Nodes : messages[n] \subseteq messages'[n]
       /\ \A i \in DOMAIN stdout' :
             ReadOkWith(stdout'[i], broadcast_acked[stdout'[i].src])]_vars

\* a read returns the value broadcast to the node and a value it learnt by gossip
GrowSetReached ==
    /\ Len(stdout) = 1
    /\ stdout[1].pl.type = "read_ok"
    /\ broadcast_acked[stdout[1].src] = {7}
    /\ stdout[1].pl.msgs = Some({7, 9})

----------------------------------------------------------------------------
(* Properties of the g-counter build *)

\* C4 (INV-CounterMonotone): on every node the value of a read_ok is never
\* smaller than the value of the node's previous read_ok, whatever the
\* interleaving of add, ticker and gossip_cntr deliveries, reordered ones included
CounterMonotone ==
    [][\A n \in Nodes : last_read'[n] >= last_read[n]]_vars

\* the sum of all deltas added anywhere in the cluster
Total == Sum(cntr, LiveNodes)

\* C5 (counter-sum convergence): with the ticker firing and every link
\* delivering, from some point on a read on every node returns the sum of all
\* deltas added in the cluster
CounterConverges ==
    <>[](\A n \in LiveNodes : ReadOk(n).value = Some(Total))

\* 3 was added on n0, 5 on n1, and a read on either node returns 8
CounterConverged ==
    /\ cntr["n0"] = 3
    /\ cntr["n1"] = 5
    /\ \A n \in LiveNodes : ReadOk(n).value = Some(8)

----------------------------------------------------------------------------
(* Properties of the replicated log *)

\* the leader handles a send of msg to key: a client's or a forwarded one
LeaderSend(key, msg) ==
    \/ \E n \in Nodes : id[n] = leader[n] /\ RecvSend(n, key, msg)
    \/ \E m \in net :
          /\ id[m.dst] = leader[m.dst]
          /\ m.pl.type = "send" /\ m.pl.key = key /\ m.pl.msg = msg
          /\ RecvForwardedSend(m)

\* C6 (send replay idempotence): when the leader handles a send of a value it
\* has answered before for that key, the send_ok carries the offset the first
\* send of that value was answered with, whatever was sent in between
SendReplaySameOffset ==
    [][\A key \in Keys, msg \in LogMsgs :
          LeaderSend(key, msg) /\ msg \in DOMAIN first_offset[key]
              => stdout'[1].pl.offset = first_offset[key][msg]]_vars

\* the pairs (i, msgs[i]) for off <= i < len(msgs), ascending
PairsFrom(msgs, off) ==
    [j \in 1..(IF Len(msgs) > off THEN Len(msgs) - off ELSE 0) |->
        << off + j - 1, msgs[off + j] >>]

\* C7 (offsets and poll): the leader answers the first send of a value to a key
\* with the number of distinct values sent to that key before it, and a poll
\* returns, for every polled key that has a log, the pairs (i, logs[key][i])
\* with i >= the polled offset in ascending order, and no other key
OffsetsAndPoll ==
    [][/\ \A key \in Keys, msg \in LogMsgs :
             LeaderSend(key, msg) /\ msg \notin DOMAIN first_offset[key]
                 => stdout'[1].pl.offset = Cardinality(DOMAIN first_offset[key])
       /\ \A n \in Nodes, offsets \in OffsetMaps :
             RecvPoll(n, offsets)
                 => stdout'[1].pl.msgs =
                        [key \in {k \in DOMAIN offsets : k \in DOMAIN logs[n]} |->
                            PairsFrom(logs[n][key], offsets[key])]]_vars

\* 100 then 200 were sent to k1 and answered 0 and 1, and a poll of k1 from 0
\* returns [[0, 100], [1, 200]]
OffsetsAndPollReached ==
    /\ first_offset["k1"] = Put(Put(EmptyMap, 100, 0), 200, 1)
    /\ Len(stdout) = 1
    /\ stdout[1].pl.type = "poll_ok"
    /\ stdout[1].pl.msgs = Put(EmptyMap, "k1", << <<0, 100>>, <<1, 200>> >>)

\* the leader init names: the first of node_ids
TheLeader == Head(cluster)
Replicas == Range(cluster) \ {TheLeader}

\* the list a node holds for a key, empty when it has none
LogOf(log, key) == IF key \in DOMAIN log THEN log[key] ELSE << >>

IsPrefix(a, b) == Len(a) <= Len(b) /\ \A i \in 1..Len(a) : a[i] = b[i]

\* C8 (INV-LogAppendOnly): every step leaves the leader's list of a key a
\* prefix of the leader's list after the step, and after every step the list a
\* replica holds for a key is a prefix of (or equal to) the leader's list,
\* whatever the order the send_many messages are delivered in
LogAppendOnly ==
    [][\A key \in Keys :
          /\ IsPrefix(LogOf(logs[TheLeader], key), LogOf(logs'[TheLeader], key))
          /\ \A r \in Replicas :
                IsPrefix(LogOf(logs'[r], key), LogOf(logs'[TheLeader], key))]_vars

\* the replica lags: it holds the first of the leader's two values, and the
\* send_many carrying both is still in flight
LogAppendOnlyReached ==
    /\ logs["n0"] = Put(EmptyMap, "k1", << 100, 200 >>)
    /\ logs["n1"] = Put(EmptyMap, "k1", << 100 >>)
    /\ \E m \in net : m.pl.type = "send_many" /\ m.pl.msgs = << 100, 200 >>

\* the leader handles a commit_offsets carrying offsets
LeaderCommit(offsets) ==
    \/ \E n \in Nodes : id[n] = leader[n] /\ RecvCommitOffsets(n, offsets)
    \/ \E m \in net :
          /\ id[m.dst] = leader[m.dst]
          /\ m.pl.type = "commit_offsets" /\ m.pl.offsets = offsets
          /\ RecvRelayedCommitOffsets(m)

\* C9 (INV-CommittedMonotone): no step removes or lowers the committed offset
\* a node stores for a key, and a commit_offsets whose offset for a key is
\* smaller than the stored one leaves the stored one as it is
CommittedMonotone ==
    [][/\ \A n \in Nodes : \A key \in DOMAIN committed_offsets[n] :
             /\ key \in DOMAIN committed_offsets'[n]
             /\ committed_offsets'[n][key] >= committed_offsets[n][key]
       /\ \A offsets \in OffsetMaps : \A key \in DOMAIN offsets :
             /\ LeaderCommit(offsets)
             /\ key \in DOMAIN committed_offsets[TheLeader]
             /\ offsets[key] < committed_offsets[TheLeader][key]
             => committed_offsets'[TheLeader][key] = committed_offsets[TheLeader][key]]_vars

\* the leader has just handled a commit of k1:0 and still stores k1:1
CommittedMonotoneReached ==
    /\ committed_offsets["n0"] = Put(EmptyMap, "k1", 1)
    /\ Len(stdout) = 2
    /\ stdout[1].src = "n0"
    /\ stdout[1].pl.type = "commit_offsets_ok"
    /\ stdout[2].pl = [type |-> "commit_offsets", offsets |-> Put(EmptyMap, "k1", 0)]

\* C10: on every node, the committed offset of a key is at most the length of
\* the node's list for that key, whatever offsets the clients commit
CommittedWithinLog ==
    \A n \in Nodes : \A key \in DOMAIN committed_offsets[n] :
        committed_offsets[n][key] <= Len(LogOf(logs[n], key))

\* C11 (committed offsets reach the replicas): once a replica has processed
\* the commit_offsets{k: o} of the leader's fan-out, a list_committed_offsets
\* of k served by that replica answers an offset >= o for k
CommitReachesReplica ==
    [][\A m \in net :
          /\ m.dst \in Replicas /\ m.src = TheLeader
          /\ m.pl.type = "commit_offsets"
          /\ RecvRelayedCommitOffsets(m)
          => \A key \in DOMAIN m.pl.offsets :
                LET ok == ListCommittedOffsetsOk(committed_offsets'[m.dst], << key >>)
                IN  key \in DOMAIN ok.offsets /\ ok.offsets[key] >= m.pl.offsets[key]]_vars

----------------------------------------------------------------------------
(* The replicated log on a reliable network, clients that send and poll:    *)
(* the node runs forever, so its ids wrap                                   *)

InitKafkaLive == InitState("kafka", LiveIdMod, LiveCluster)

NextKafkaLogLive ==
    \/ \E n \in LiveNodes : RecvInit(n)
    \/ \E n \in LiveNodes, key \in Keys, msg \in LogMsgs : RecvSend(n, key, msg)
    \/ \E m \in net : RecvForwardedSend(m)
    \/ \E m \in net : RecvSendMany(m)
    \/ \E n \in LiveNodes, offsets \in OffsetMaps : RecvPoll(n, offsets)
    \/ \E m \in net : RecvIgnored(m)

\* the harness delivers init and every message in flight is eventually delivered
FairKafkaLog ==
    /\ \A n \in LiveNodes : WF_vars(RecvInit(n))
    /\ WF_vars(\E m \in net : RecvForwardedSend(m))
    /\ WF_vars(\E m \in net : RecvSendMany(m))
    /\ WF_vars(\E m \in net : RecvIgnored(m))

SpecKafkaLogLive == InitKafkaLive /\ [][NextKafkaLogLive]_vars /\ FairKafkaLog

\* the line is the send_ok that answers the client's request i
SendOkTo(line, i) ==
    line.dst = Client /\ line.pl.type = "send_ok" /\ line.in_reply_to = i

\* C12 (send forwarding): a replica handling a client's send writes exactly
\* the send for the leader, with the same key and msg and no send_ok; and once
\* the forwarded send of the client's request i is in flight, a send_ok with
\* in_reply_to = i is eventually written for the client
SendForwarded ==
    /\ [][\A n \in Nodes, key \in Keys, msg \in LogMsgs :
             id[n] # leader[n] /\ RecvSend(n, key, msg)
                 => /\ Len(stdout') = 1
                    /\ stdout'[1].dst = leader[n]
                    /\ stdout'[1].pl = [type |-> "send", key |-> key, msg |-> msg]]_vars
    /\ \A i \in 1..MaxRequests :
          (\E m \in net : m.pl.type = "send" /\ m.in_reply_to = i)
              ~> (\E j \in DOMAIN stdout : SendOkTo(stdout[j], i))

----------------------------------------------------------------------------
(* Properties of the envelope *)

\* every line of the step that carries an in_reply_to answers the request R
RepliesTo(R) ==
    \A j \in DOMAIN stdout' :
        stdout'[j].in_reply_to # None
            => /\ stdout'[j].in_reply_to = R.msg_id
               /\ stdout'[j].src = R.dst
               /\ stdout'[j].dst = R.src

\* the node handles the message m in flight
RecvInFlight(m) ==
    \/ RecvGossip(m) \/ RecvGossipOk(m) \/ RecvGossipCntr(m)
    \/ RecvForwardedSend(m) \/ RecvSendMany(m)
    \/ RecvRelayedCommitOffsets(m) \/ RecvIgnored(m)

\* C13 (INV-Reply): whatever request R a node handles (an init, a client's
\* request or a message of another node), every line it writes that carries
\* an in_reply_to has in_reply_to = R.msg_id, src = R.dest and dest = R.src,
\* the replica branches of send and commit_offsets included
InvReply ==
    [][/\ \A n \in Nodes : RecvInit(n) => RepliesTo(InitReq(n))
       /\ \A n \in Nodes :
             client_msg_id' # client_msg_id /\ msg_id'[n] # msg_id[n]
                 => RepliesTo(ClientReq(n, << >>))
       /\ \A m \in net : RecvInFlight(m) => RepliesTo(m)]_vars



----------------------------------------------------------------------------
(* Transactions workload: Pl::Txn and Pl::FwdW *)

TxnKeys == {1, 2}
TxnValues == {10, 20}

\* a TxnOp: (op, key, value), the value of a read is null
TxnOp(op, key, value) == << op, key, value >>

WriteOp(key, value, timestamp) ==
    [key |-> key, value |-> value, timestamp |-> timestamp]

\* the value half of a Snapshot entry (value, timestamp), None for a missing key
SnapValue(data, key) == IF key \in DOMAIN data THEN data[key][1] ELSE None

\* the loop over the ops: a read pushes ('r', key, rval) from the snapshot
\* taken at the start of the transaction, a write pushes nothing
RECURSIVE trans_result(_, _)
trans_result(txn, trans_snap) ==
    IF txn = << >> THEN << >>
    ELSE LET op == Head(txn)
             rest == trans_result(Tail(txn), trans_snap)
         IN  IF op[1] = "r"
             THEN << TxnOp("r", op[2], SnapValue(trans_snap, op[2])) >> \o rest
             ELSE rest

\* the same loop: a write pushes a WriteOp stamped with the transaction's clock
RECURSIVE PendingOf(_, _)
PendingOf(txn, ts) ==
    IF txn = << >> THEN << >>
    ELSE LET op == Head(txn)
             rest == PendingOf(Tail(txn), ts)
         IN  IF op[1] = "w" THEN << WriteOp(op[2], op[3], ts) >> \o rest ELSE rest

\* a write replaces the entry of its key when the key is new or the write is younger
Written(data, write) ==
    IF write.key \in DOMAIN data /\ ~(write.timestamp > data[write.key][2])
    THEN data
    ELSE Put(data, write.key, << write.value, write.timestamp >>)

RECURSIVE Drained(_, _)
Drained(data, writes) ==
    IF writes = << >> THEN data
    ELSE Drained(Written(data, Head(writes)), Tail(writes))

\* fault: every fan-out message is stamped with the id of the reply
FanOutId_Reused(first, k) == first
\* msg_id: Some(msg_id); msg_id += 1, for the k-th peer after the reply's id
FanOutId(first, k) == (first + k) % usize_range

\* the fwd_w messages of one transaction, one per mesh peer
FwdWs(n, first, writes) ==
    [k \in DOMAIN mesh_neighbourhood[n] |->
        Msg(id[n], mesh_neighbourhood[n][k],
            [type |-> "fwd_w", writes |-> writes], FanOutId(first, k), None)]

\* op.2.expect(..) panics on a write without a value, any op but r and w panics
Pl_Txn(n, m, taken) ==
    LET resp == into_resp(m, msg_id[n])
        txn == m.pl.txn
        ts == txn_id[n] + 1
        trans_snap == snapshot[n]
        pushed == pending_writes[n] \o PendingOf(txn, ts)
        left == << >>
    IN  /\ \A i \in DOMAIN txn :
              txn[i][1] \in {"r", "w"} /\ (txn[i][1] = "w" => txn[i][3] # None)
        /\ msg_id' = [msg_id EXCEPT ![n] = (@ + 1 + Len(mesh_neighbourhood[n])) % usize_range]
        /\ txn_id' = [txn_id EXCEPT ![n] = ts]
        /\ snapshot' = [snapshot EXCEPT ![n] = Drained(@, pushed)]
        /\ pending_writes' = [pending_writes EXCEPT ![n] = left]
        /\ Emit(taken, FwdWs(n, msg_id[n], left)
                           \o << WithPl(resp, [type |-> "txn_ok",
                                               txn |-> trans_result(txn, trans_snap)]) >>)
        /\ UNCHANGED <<idVars, gossipVars, cntrVars, kafkaVars>>

Pl_FwdW(n, m, taken) ==
    /\ msg_id' = [msg_id EXCEPT ![n] = IdSucc(@)]
    /\ snapshot' = [snapshot EXCEPT ![n] = Drained(@, m.pl.writes)]
    /\ Emit(taken, << >>)
    /\ UNCHANGED <<idVars, gossipVars, cntrVars, kafkaVars, txn_id, pending_writes>>

\* the transactions of the client
Txns ==
    { << TxnOp("w", 1, 10) >>,
      << TxnOp("w", 1, 20) >>,
      << TxnOp("r", 1, None) >>,
      << TxnOp("w", 2, 10), TxnOp("r", 2, None) >>,
      << TxnOp("w", 1, 10), TxnOp("w", 1, 20) >> }

RecvTxn(n, txn) ==
    /\ CanAsk
    /\ Pl_Txn(n, ClientReq(n, [type |-> "txn", txn |-> txn]), {})
    /\ txn_acked' = [txn_acked EXCEPT ![n] = @ \cup {txn}]
    /\ Asked
    /\ UNCHANGED <<observed, procVars>>

RecvFwdW(m) ==
    /\ m.pl.type = "fwd_w"
    /\ Pl_FwdW(m.dst, m, {m})
    /\ UNCHANGED <<client_msg_id, observed, procVars, txn_acked>>

InitTxn == InitState("kafka", MsgIdMod, <<"n0", "n1">>)

NextTxn ==
    \/ \E n \in Range(cluster) : NoWrap(n, 1) /\ RecvInit(n)
    \/ \E n \in Range(cluster), txn \in Txns :
          NoWrap(n, 1 + Len(mesh_neighbourhood[n])) /\ RecvTxn(n, txn)
    \/ \E m \in net : NoWrap(m.dst, 1) /\ RecvFwdW(m)

SpecTxn == InitTxn /\ [][NextTxn]_vars



----------------------------------------------------------------------------
(* Properties of the message ids *)

\* the lines of `out` that carry a msg_id
Carrying(out) == {j \in DOMAIN out : out[j].msg_id # None}

\* C14: no two messages written by the same node carry the same msg_id: an id
\* stamped on a line of a step was never stamped on an earlier line of the
\* same node, and the lines of one step carry pairwise different ids
MsgIdUnique ==
    [][\A j \in Carrying(stdout') :
          /\ stdout'[j].msg_id \notin emitted[stdout'[j].src]
          /\ \A k \in Carrying(stdout') :
                k # j /\ stdout'[k].src = stdout'[j].src
                    => stdout'[k].msg_id # stdout'[j].msg_id]_vars

\* a node has answered two transactions, each with a fan-out to its peer
MsgIdUniqueReached ==
    \E n \in Nodes :
        /\ Cardinality(txn_acked[n]) >= 2
        /\ Cardinality(emitted[n]) >= 5
        /\ Len(stdout) = 2 /\ stdout[1].pl.type = "fwd_w" /\ stdout[2].pl.type = "txn_ok"


\* C15: the msg_ids a node writes are strictly increasing in the order of
\* the lines: a carried id is larger than every id the node has written in
\* earlier steps and larger than the ids of the earlier lines of its own step
MsgIdIncreasing ==
    [][\A j \in Carrying(stdout') :
          /\ \A old \in emitted[stdout'[j].src] : old < stdout'[j].msg_id
          /\ \A k \in Carrying(stdout') :
                k < j /\ stdout'[k].src = stdout'[j].src
                    => stdout'[k].msg_id < stdout'[j].msg_id]_vars


----------------------------------------------------------------------------
(* Properties of the transactions *)

\* what node n answers to txn [[r, key, null]] in the current state
ReadBy(n, key) == trans_result(<< TxnOp("r", key, None) >>, snapshot[n])

\* every fwd_w has been delivered
FwdWDelivered == \A m \in net : m.pl.type # "fwd_w"

\* the client has sent txn [[w,1,10]] to n0, txn [[w,1,20]] to n1 and no
\* other write
ConcurrentWrites ==
    /\ Initialised
    /\ txn_acked["n0"] \ {<< TxnOp("r", 1, None) >>} = {<< TxnOp("w", 1, 10) >>}
    /\ txn_acked["n1"] \ {<< TxnOp("r", 1, None) >>} = {<< TxnOp("w", 1, 20) >>}

\* C16 (INV-TxnDeterminism): n0 has processed txn [[w,1,10]] and n1 has
\* processed txn [[w,1,20]]; once every message between the nodes is delivered
\* a txn [[r,1,null]] returns the same value on either node
TxnDeterminism ==
    ConcurrentWrites /\ FwdWDelivered => ReadBy("n0", 1) = ReadBy("n1", 1)



\* the response triple of one op: a write is echoed, a read carries a value or null
Answers(triple, op) ==
    /\ triple[1] = op[1]
    /\ triple[2] = op[2]
    /\ IF op[1] = "w" THEN triple[3] = op[3] ELSE triple[3] \in TxnValues \cup {None}

\* C17: the txn_ok reply to txn{ops} contains exactly one response triple per
\* op of the request, in request order: (w, key, value) for a write op and
\* (r, key, value-or-null) for a read op
TxnOkPerOp ==
    [][\A n \in Nodes, txn \in Txns :
          RecvTxn(n, txn)
              => LET ok == stdout'[Len(stdout')].pl
                 IN  /\ ok.type = "txn_ok"
                     /\ Len(ok.txn) = Len(txn)
                     /\ \A i \in DOMAIN txn : Answers(ok.txn[i], txn[i])]_vars


----------------------------------------------------------------------------
(* The process of one node: the stdin thread and the ticker threads feed   *)
(* the channel, main's `for evt in rx` takes the events one at a time      *)

\* the node whose process is followed
Proc == "n0"

Evt_Ext(msg) == [kind |-> "ext", msg |-> msg]
Evt_Int(task) == [kind |-> "int", task |-> task]

\* where a Sender handle lives: txc is moved into the stdin thread; txsc and
\* txsm are moved into ticker threads by the builds that spawn them and stay
\* locals of main, dropped when main returns, in the other builds
HeldBy(handle) ==
    IF handle = "txc" THEN "stdin"
    ELSE IF feature = "broadcast" THEN "ticker"
    ELSE IF feature = "g-counter" /\ handle = "txsm" THEN "ticker"
    ELSE "main"

\* the init line has been read from stdin
InitRead == id[Proc] # "" \/ \E i \in DOMAIN rx : rx[i].kind = "ext" /\ rx[i].msg.pl.type = "init"

\* the lines the harness can write next
StdinLines ==
    IF ~InitRead THEN {InitReq(Proc)}
    ELSE IF client_msg_id > MaxRequests THEN {}
    ELSE {ClientReq(Proc, [type |-> "broadcast", msg |-> v]) : v \in Values}
             \cup {ClientReq(Proc, [type |-> "read", key |-> NoneStr, msg_id |-> None])}

\* the stdin thread parses one line and sends it: txc.send(Evt::Ext(req))
StdinLine ==
    /\ stdin_reader = "reading"
    /\ Len(rx) < MaxQueued
    /\ \E line \in StdinLines :
          /\ rx' = Append(rx, Evt_Ext(line))
          /\ client_msg_id' = IF line.pl.type = "init" THEN client_msg_id
                              ELSE client_msg_id + 1
    /\ UNCHANGED <<idVars, msg_id, gossipVars, cntrVars, kafkaVars, txnVars,
                   net, stdout, emitted, observed, txn_acked,
                   stdin_reader, senders, dispatcher>>

\* the stdin thread ends, at the end of the input or with the error of a
\* line that does not parse; its closure returns and txc is dropped
StdinEnd(cause) ==
    /\ stdin_reader = "reading"
    /\ stdin_reader' = cause
    /\ senders' = senders \ {"txc"}
    /\ UNCHANGED <<idVars, msg_id, gossipVars, cntrVars, kafkaVars, txnVars,
                   net, stdout, emitted, client_msg_id, observed, txn_acked,
                   rx, dispatcher>>

\* one round of a ticker thread after its sleep: send the task, break out of
\* the loop (dropping the handle) when the send fails because rx is gone
Ticker(handle, task) ==
    /\ handle \in senders
    /\ HeldBy(handle) = "ticker"
    /\ IF dispatcher = "looping"
       THEN /\ Len(rx) < MaxQueued
            /\ rx' = Append(rx, Evt_Int(task))
            /\ UNCHANGED senders
       ELSE /\ senders' = senders \ {handle}
            /\ UNCHANGED rx
    /\ UNCHANGED <<idVars, msg_id, gossipVars, cntrVars, kafkaVars, txnVars,
                   net, stdout, emitted, client_msg_id, observed, txn_acked,
                   stdin_reader, dispatcher>>

\* the match of the dispatcher on one event
Handle(n, evt) ==
    IF evt.kind = "int"
    THEN IF evt.task = "CentralGossip" THEN Task_CentralGossip(n)
         ELSE IF evt.task = "MeshGossip" THEN Task_MeshGossip(n)
         ELSE Task_GossipCntr(n)
    ELSE IF evt.msg.pl.type = "init" THEN Pl_Init(n, evt.msg, {})
         ELSE IF evt.msg.pl.type = "broadcast" THEN Pl_Broadcast(n, evt.msg, {})
         ELSE Pl_Read(n, evt.msg, {})

\* one iteration of `for evt in rx`: the next queued event is handled; with
\* the queue empty, recv blocks while a Sender is alive and the loop ends
\* when every Sender is dropped
RxRecv ==
    /\ dispatcher = "looping"
    /\ IF rx # << >>
       THEN /\ Handle(Proc, Head(rx))
            /\ rx' = Tail(rx)
            /\ UNCHANGED dispatcher
       ELSE /\ senders = {}
            /\ dispatcher' = "returned"
            /\ UNCHANGED <<idVars, msg_id, gossipVars, cntrVars, kafkaVars, txnVars,
                           net, stdout, emitted, rx>>
    /\ UNCHANGED <<stdin_reader, senders, client_msg_id, observed, txn_acked>>

\* the build with the gossip tickers and the build without any ticker
InitShutdown ==
    \E f \in {"broadcast", "kafka"} : InitState(f, LiveIdMod, LiveCluster)

NextShutdown ==
    \/ StdinLine
    \/ \E cause \in {"eof", "parse error"} : StdinEnd(cause)
    \/ Ticker("txsc", "CentralGossip")
    \/ Ticker("txsm", "MeshGossip")
    \/ RxRecv

\* main's loop and the ticker threads keep running
FairShutdown ==
    /\ WF_vars(RxRecv)
    /\ WF_vars(Ticker("txsc", "CentralGossip"))
    /\ WF_vars(Ticker("txsm", "MeshGossip"))

SpecShutdown == InitShutdown /\ [][NextShutdown]_vars /\ FairShutdown

\* C18 (clean shutdown): once the stdin thread has ended, at the end of the
\* input or on a line that does not parse, the dispatcher eventually finds
\* the channel closed and returns, with and without ticker threads
ShutdownClean == (stdin_reader # "reading") ~> (dispatcher = "returned")



----------------------------------------------------------------------------
(* Build with feature "broadcast" whose harness sends init again *)

\* the init messages a node may receive after its first one
Reinits ==
    { [type |-> "init", node_id |-> "n0", node_ids |-> <<"n0", "n1">>],
      [type |-> "init", node_id |-> "n1", node_ids |-> <<"n1", "n0">>],
      [type |-> "init", node_id |-> "n2", node_ids |-> <<"n2", "n0">>] }

\* the dispatcher hands every init to the Pl::Init arm
RecvInitAgain(n, pl) ==
    /\ id[n] # ""
    /\ Pl_Init(n, Msg("c0", n, pl, 2, None), {})
    /\ UNCHANGED <<client_msg_id, observed>>
    /\ UNCHANGED <<procVars, txn_acked>>

NextReinit ==
    \/ \E n \in Range(cluster) : NoWrap(n, 1) /\ RecvInit(n)
    \/ \E n \in Range(cluster) : NoWrap(n, 1) /\ RecvBroadcast(n)
    \/ \E m \in net : NoWrap(m.dst, 1) /\ RecvGossip(m)
    \/ \E m \in net : NoWrap(m.dst, 1) /\ RecvGossipOk(m)
    \/ \E n \in Range(cluster) :
          NoWrap(n, Len(mesh_neighbourhood[n])) /\ MeshGossipTick(n)
    \/ \E n \in Range(cluster), pl \in Reinits : NoWrap(n, 1) /\ RecvInitAgain(n, pl)

SpecReinit == InitBroadcast /\ [][NextReinit]_vars

\* the identity of node n and what init derives from it
Identity(n) ==
    << id[n], ids[n], leader[n], central_neighbourhood[n], mesh_neighbourhood[n],
       seen[n], cntrs[n] >>

\* C19: a second init received by an initialised node is an invariant
\* violation: it is not answered with init_ok and it does not overwrite id,
\* ids, leader, the neighbourhoods, seen or cntrs
InitOnce ==
    [][\A n \in Nodes, pl \in Reinits :
          RecvInitAgain(n, pl)
              => /\ Identity(n)' = Identity(n)
                 /\ \A j \in DOMAIN stdout' : stdout'[j].pl.type # "init_ok"]_vars


----------------------------------------------------------------------------
(* seen as a lower bound *)

\* C20: in a cluster of initialised nodes, for every node n and peer p,
\* every value of n's seen[p] is in p's own messages set
SeenLowerBound ==
    \A n \in Nodes : \A p \in DOMAIN seen[n] : seen[n][p] \subseteq messages[p]

\* some node has learnt what a peer holds from a gossip_ok and another from
\* a gossip, after both tickers have run
SeenLowerBoundReached ==
    \E n \in Nodes, p \in Nodes :
        /\ n # p
        /\ p \in DOMAIN seen[n] /\ n \in DOMAIN seen[p]
        /\ Cardinality(seen[n][p]) = 2
        /\ seen[p][n] # {}
        /\ pending[n] = EmptyMap




----------------------------------------------------------------------------
(* The gossip tasks *)

\* the lines of `out` addressed to p
LinesTo(out, p) == {j \in DOMAIN out : out[j].dst = p}

\* what a gossip task of node n over `hosts` does, seen from outside: a
\* neighbour is sent a gossip exactly when it lacks something, the gossip
\* carries what it lacks under an id not used before, and the round is
\* recorded in pending under that id
TaskStep(n, hosts) ==
    /\ \A j \in DOMAIN stdout' : stdout'[j].pl.type = "gossip" /\ stdout'[j].dst \in Range(hosts)
    /\ \A p \in Range(hosts) :
          LET digest == messages[n] \ seen[n][p]
              lines == LinesTo(stdout', p)
          IN  /\ (lines # {}) <=> (digest # {})
              /\ Cardinality(lines) <= 1
              /\ \A j \in lines :
                    LET line == stdout'[j]
                    IN  /\ line.src = id[n]
                        /\ line.pl.msgs = digest
                        /\ line.msg_id # None
                        /\ line.msg_id \notin emitted[id[n]]
                        /\ line.msg_id \notin DOMAIN pending[n]
                        /\ line.msg_id \in DOMAIN pending'[n]
                        /\ pending'[n][line.msg_id] = digest
    /\ (\A p \in Range(hosts) : seen[n][p] = messages[n]) => stdout' = << >>

\* C21: when a central or mesh gossip task runs, each neighbour p of that
\* neighbourhood is sent a gossip if and only if messages \ seen[p] is not
\* empty; the payload is exactly messages \ seen[p], the id is fresh and
\* pending[id] is that digest; with seen[p] = messages for every neighbour
\* the task writes nothing
GossipTaskStep ==
    [][\A n \in Nodes :
          /\ CentralGossipTick(n) => TaskStep(n, central_neighbourhood[n])
          /\ MeshGossipTick(n) => TaskStep(n, mesh_neighbourhood[n])]_vars

\* a task has sent a digest of two values that is recorded as pending, while
\* an earlier round of the node is still pending
GossipTaskStepReached ==
    \E n \in Nodes :
        /\ Len(stdout) = 1
        /\ stdout[1].pl.type = "gossip" /\ stdout[1].src = n
        /\ Cardinality(stdout[1].pl.msgs) = 2
        /\ stdout[1].msg_id \in DOMAIN pending[n]
        /\ Cardinality(DOMAIN pending[n]) >= 2


\* the values of the rounds of node n that no gossip_ok has answered yet; in
\* the two-node cluster every round of n went to its one peer
Unacked(n) == UNION {pending[n][k] : k \in DOMAIN pending[n]}

\* a task of node n over `hosts` sends again what it sent and the peer has
\* not been seen to hold
Resent(n, hosts) ==
    \A p \in Range(hosts) : \A v \in Unacked(n) \ seen[n][p] :
        \E j \in LinesTo(stdout', p) : v \in stdout'[j].pl.msgs

\* seen[p] of node n grows only by a gossip of p, by its values, or by a
\* gossip_ok of p that names a pending round, by the values of that round
SeenGrowsByAck(n, p) ==
    \E m \in net :
        /\ m.dst = n /\ m.src = p
        /\ \/ /\ RecvGossip(m)
              /\ seen'[n][p] = seen[n][p] \cup m.pl.msgs
           \/ /\ RecvGossipOk(m)
              /\ m.pl.id \in DOMAIN pending[n]
              /\ seen'[n][p] = seen[n][p] \cup pending[n][m.pl.id]

\* C22 (retry by omission): a value sent to p stays in every later digest
\* for p until a gossip_ok of p for a pending round holding it, or a gossip
\* of p holding it, arrives; a pending round is removed only by the gossip_ok
\* that carries its id; nothing is added to seen[p] without such a message
RetryByOmission ==
    [][\A n \in Nodes :
          /\ CentralGossipTick(n) => Resent(n, central_neighbourhood[n])
          /\ MeshGossipTick(n) => Resent(n, mesh_neighbourhood[n])
          /\ \A k \in DOMAIN pending[n] :
                \/ k \in DOMAIN pending'[n] /\ pending'[n][k] = pending[n][k]
                \/ \E m \in net : m.dst = n /\ m.pl.type = "gossip_ok"
                                    /\ m.pl.id = k /\ RecvGossipOk(m)
          /\ \A p \in DOMAIN seen[n] \cap DOMAIN seen'[n] :
                seen'[n][p] # seen[n][p] => SeenGrowsByAck(n, p)]_vars

\* a node has sent a value again while the round that first carried it is
\* still pending
RetryByOmissionReached ==
    \E n \in Nodes :
        /\ Len(stdout) = 1
        /\ stdout[1].pl.type = "gossip" /\ stdout[1].src = n
        /\ \E k \in DOMAIN pending[n] \ {stdout[1].msg_id} :
              pending[n][k] \cap stdout[1].pl.msgs # {}


----------------------------------------------------------------------------
(* The committed offsets on a reliable network: ids wrap, every message in *)
(* flight is eventually handled                                            *)

NextKafkaCommitLive ==
    \/ \E n \in LiveNodes : RecvInit(n)
    \/ \E n \in LiveNodes, offsets \in OffsetMaps : RecvCommitOffsets(n, offsets)
    \/ \E m \in net : RecvRelayedCommitOffsets(m)
    \/ \E m \in net : RecvIgnored(m)

FairKafkaCommit ==
    /\ \A n \in LiveNodes : WF_vars(RecvInit(n))
    /\ WF_vars(\E m \in net : RecvRelayedCommitOffsets(m))
    /\ WF_vars(\E m \in net : RecvIgnored(m))

SpecKafkaCommitLive == InitKafkaLive /\ [][NextKafkaCommitLive]_vars /\ FairKafkaCommit

\* no commit_offsets and no commit_offsets_ok is in flight between the nodes
CommitQuiet ==
    \A m \in net : m.pl.type \notin {"commit_offsets", "commit_offsets_ok"}

\* the client has sent one request, a commit_offsets
OneCommit == client_msg_id = 2

\* C23: a single client commit_offsets causes finitely many messages between
\* the nodes: when the client sends one commit_offsets and nothing more, the
\* cluster reaches a state from which no commit_offsets and no
\* commit_offsets_ok is in flight any more
CommitQuiesces == <>[]OneCommit => <>[]CommitQuiet


----------------------------------------------------------------------------
(* The writes of a transaction *)

\* the positions of the ops of txn that write key
WritesTo(txn, key) == {i \in DOMAIN txn : txn[i][1] = "w" /\ txn[i][2] = key}

\* the value of the last write to key in txn
LastWritten(txn, key) ==
    LET last == CHOOSE i \in WritesTo(txn, key) : \A j \in WritesTo(txn, key) : j <= i
    IN  txn[last][3]

\* C24: the writes of one txn are applied in list order: when the ops of a
\* txn write the same key more than once, the node stores the value of the
\* last of these writes and a later txn [[r,k,null]] on the node returns it
WritesInListOrder ==
    [][\A n \in Nodes, txn \in Txns :
          RecvTxn(n, txn)
              => \A key \in TxnKeys :
                    Cardinality(WritesTo(txn, key)) > 1
                        => /\ SnapValue(snapshot'[n], key) = LastWritten(txn, key)
                           /\ trans_result(<< TxnOp("r", key, None) >>, snapshot'[n])
                                  = << TxnOp("r", key, LastWritten(txn, key)) >>]_vars


\* C25: when a node processes a txn with at least one write, each fwd_w it
\* sends to a mesh peer holds exactly the writes of that txn (key, value,
\* timestamp), one fwd_w per mesh peer, so that the peer's store holds every
\* key the txn wrote once the fwd_w is delivered
FwdWCarriesWrites ==
    [][\A n \in Nodes, txn \in Txns :
          RecvTxn(n, txn) /\ (\E i \in DOMAIN txn : txn[i][1] = "w")
              => /\ \A p \in Range(mesh_neighbourhood[n]) :
                       \E j \in LinesTo(stdout', p) : stdout'[j].pl.type = "fwd_w"
                 /\ \A j \in DOMAIN stdout' :
                       stdout'[j].pl.type = "fwd_w"
                           => /\ stdout'[j].pl.writes = PendingOf(txn, txn_id'[n])
                              /\ \A i \in DOMAIN txn :
                                    txn[i][1] = "w"
                                        => txn[i][2] \in DOMAIN
                                               Drained(snapshot[stdout'[j].dst],
                                                       stdout'[j].pl.writes)]_vars


====
